---- MODULE Spec2Model ----
(***************************************************************************)
(* Model of brand_product_finder.py: site discovery (sitemaps with crawl   *)
(* fallback), the per-page matching pipeline scan_url, the aggregation     *)
(* loop over ThreadPoolExecutor.map, and the collapse-variants pass.       *)
(*                                                                         *)
(* Text is modelled at the level of whitespace-separated tokens: a Python  *)
(* str is a sequence of tokens (TLA+ strings) drawn from a small           *)
(* vocabulary, and each regular expression of the source is modelled by    *)
(* what it does on such token sequences.                                   *)
(***************************************************************************)
EXTENDS Integers, Sequences, FiniteSets, TLC

\* ------------------------------------------------------------------------
\* Bounds of the model
\* ------------------------------------------------------------------------
MaxUrls == 3        \* length of all_urls in the scan specification
MaxWorkers == 2     \* max_workers of the thread pool
MaxTextLen == 3     \* tokens of visible text on a generated page
MaxRows == 3        \* rows handed to the collapse-variants pass
MaxLinks == 2       \* pages of a site reachable by links, besides the root

\* ------------------------------------------------------------------------
\* Tokens and character-level helpers (tables over the vocabulary)
\* ------------------------------------------------------------------------

\* str.lower() on one token
LowerTab ==
  ("Acme" :> "acme") @@ ("Zeta" :> "zeta") @@ ("Unknown" :> "unknown") @@
  ("Rover" :> "rover") @@ ("X2" :> "x2") @@ ("Pro" :> "pro") @@
  ("WiFi" :> "wifi") @@ ("Wi-Fi" :> "wi-fi") @@ ("Bluetooth" :> "bluetooth") @@
  ("LR4" :> "lr4") @@ ("By" :> "by") @@ ("Rovers" :> "rovers") @@
  ("Rover-X2" :> "rover-x2") @@ ("Wi" :> "wi") @@ ("Fi" :> "fi") @@
  ("CatLink" :> "catlink")

Lower(tok) == IF tok \in DOMAIN LowerTab THEN LowerTab[tok] ELSE tok

LowerSeq(s) == [i \in 1..Len(s) |-> Lower(s[i])]

\* re.sub(r"[^a-z0-9]+", "", tok) on a lowercase token
AlnumTab == ("wi-fi" :> "wifi") @@ ("-" :> "") @@ ("rover-x2" :> "roverx2")

AlnumOnly(tok) == IF tok \in DOMAIN AlnumTab THEN AlnumTab[tok] ELSE tok

\* tok.isdigit()
IsDigitTok(tok) == tok \in {"7", "2024"}

\* tok.isalpha() and tok.islower()
IsLowerAlpha(tok) == tok \in {"acme", "zeta", "unknown", "rover", "pro", "wifi",
                              "bluetooth", "by", "from", "guide", "with", "app",
                              "the", "enabled", "wi", "fi", "controlled", "wireless",
                              "rovers"}

\* any(ch in tok for ch in [",", ";", "/"])
HasListSep(tok) == tok \in {"X2/Pro"}

\* first character in [A-Za-z] (the patterns are compiled with re.I)
StartsAlpha(tok) == tok # "" /\ ~IsDigitTok(tok) /\ tok # "-"

\* first character in [A-Za-z0-9]
StartsAlnum(tok) == tok # "" /\ tok # "-"

\* every character of the token is in the strip set " -:|.,)(" of the source
IsEdgePunct(tok) == tok = "-"

\* Code-point order of the tokens, as Python compares str
TokRank ==
  ("-" :> 1) @@ ("2024" :> 2) @@ ("7" :> 3) @@ ("Acme" :> 4) @@
  ("Bluetooth" :> 5) @@ ("By" :> 6) @@ ("LR4" :> 7) @@ ("Pro" :> 8) @@
  ("Rover" :> 9) @@ ("Unknown" :> 10) @@ ("Wi-Fi" :> 11) @@ ("WiFi" :> 12) @@
  ("X2" :> 13) @@ ("Zeta" :> 14) @@ ("acme" :> 15) @@ ("by" :> 16) @@
  ("from" :> 17) @@ ("guide" :> 18) @@ ("lr4" :> 19) @@ ("rover" :> 20) @@
  ("wifi" :> 21) @@ ("x2" :> 22)

\* s < t for two token sequences joined by single spaces (space sorts first)
RECURSIVE StrLess(_, _)
StrLess(s, t) ==
  IF t = <<>> THEN FALSE
  ELSE IF s = <<>> THEN TRUE
  ELSE IF Head(s) = Head(t) THEN StrLess(Tail(s), Tail(t))
  ELSE TokRank[Head(s)] < TokRank[Head(t)]

\* sorted(S) for a finite set of token sequences
RECURSIVE SortedSeq(_)
SortedSeq(S) ==
  IF S = {} THEN <<>>
  ELSE LET m == CHOOSE x \in S : \A y \in S \ {x} : StrLess(x, y)
       IN  <<m>> \o SortedSeq(S \ {m})

\* the token run s[a..b] (empty when a > b)
Slice(s, a, b) == IF a > b THEN <<>> ELSE SubSeq(s, a, b)

Min(a, b) == IF a <= b THEN a ELSE b

RECURSIVE Flatten(_)
Flatten(ss) == IF ss = <<>> THEN <<>> ELSE Head(ss) \o Flatten(Tail(ss))

SeqToSet(s) == {s[i] : i \in 1..Len(s)}

\* ------------------------------------------------------------------------
\* Pattern compiler: product_patterns / compile_brand_pattern
\* ------------------------------------------------------------------------

\* one token of the pattern against one token of the text (flags = re.I unless
\* case_sensitive)
TokMatch(a, b, cs) == IF cs THEN a = b ELSE Lower(a) = Lower(b)

\* pat.search(text) for r"\b" + flexible_token_regex(item) + r"\b": the item's
\* tokens occur as a contiguous, whole-token run of the text
PatSearch(item, text, cs) ==
  \E i \in 1..(Len(text) - Len(item) + 1) :
     \A j \in 1..Len(item) : TokMatch(item[j], text[i + j - 1], cs)

\* Product.product_patterns / product_patterns(p, case_sensitive): the items
\* name + aliases that are non-empty, none for a brand-only entry
ProductPats(p) ==
  IF p.brand_only THEN <<>>
  ELSE SelectSeq(<<p.name>> \o p.aliases, LAMBDA it : it # <<>>)

\* catalog_patterns[brand]: (name, pattern) for every pattern of every named
\* entry of that brand, in catalog order
RECURSIVE CatalogPatterns(_, _)
CatalogPatterns(products, brand) ==
  IF products = <<>> THEN <<>>
  ELSE LET p == Head(products)
           own == IF ~p.brand_only /\ p.name # <<>> /\ p.brand = brand
                  THEN [i \in 1..Len(ProductPats(p)) |->
                          [cname |-> p.name, pat |-> ProductPats(p)[i]]]
                  ELSE <<>>
       IN  own \o CatalogPatterns(Tail(products), brand)

\* ------------------------------------------------------------------------
\* Phrase cleanup: clean_phrase_tokens
\* ------------------------------------------------------------------------
STOPWORDS == {"and", "or", "with", "for", "to", "the", "a", "an", "in", "on", "of", "by"}

GENERIC_BAD_TOKENS == {"guide", "beginners", "beginner", "best", "top", "vs",
                       "comparison", "compare", "review", "reviews", "let", "peace",
                       "how", "why", "what", "actually", "really", "lowest",
                       "entrance", "ultimate", "complete", "2020", "2021", "2022",
                       "2023", "2024", "2025"}

\* s.strip(" -:|.,)(") on a token sequence: edge tokens made of strip characters go
RECURSIVE StripEdges(_)
StripEdges(s) ==
  IF s = <<>> THEN <<>>
  ELSE IF IsEdgePunct(Head(s)) THEN StripEdges(Tail(s))
  ELSE IF IsEdgePunct(s[Len(s)]) THEN StripEdges(SubSeq(s, 1, Len(s) - 1))
  ELSE s

\* the loop of clean_phrase_tokens: tokens kept up to the first break
RECURSIVE KeptTokens(_)
KeptTokens(tokens) ==
  IF tokens = <<>> THEN <<>>
  ELSE LET tok == Head(tokens)
           low == Lower(tok)
       IN  IF low \in GENERIC_BAD_TOKENS \/ low \in STOPWORDS THEN <<>>
           ELSE IF IsLowerAlpha(tok) THEN <<>>
           ELSE IF HasListSep(tok) THEN <<>>
           ELSE <<tok>> \o KeptTokens(Tail(tokens))

clean_phrase_tokens(s) ==
  LET tokens == StripEdges(s)
  IN  IF tokens = <<>> THEN <<>>
      ELSE IF IsDigitTok(tokens[1]) THEN <<>>
      ELSE StripEdges(KeptTokens(tokens))

\* ------------------------------------------------------------------------
\* Candidate extraction: detect_products_from_text / detect_products_from_html
\* ------------------------------------------------------------------------
MaxRun == 7   \* one leading token plus {0,6} following tokens

\* length of the greedy run [A-Z][\w\-]*(?:\s+[A-Z0-9][\w\-]*){0,6} starting at i
RECURSIVE RunLen(_, _, _)
RunLen(text, i, sofar) ==
  IF i > Len(text) \/ sofar >= MaxRun THEN sofar
  ELSE IF sofar = 0 /\ ~StartsAlpha(text[i]) THEN 0
  ELSE IF ~StartsAlnum(text[i]) THEN sofar
  ELSE RunLen(text, i + 1, sofar + 1)

\* finditer of the brand-prefix shape from position i: the cleaned phrases
RECURSIVE PrefixPhrases(_, _, _)
PrefixPhrases(text, brand, i) ==
  IF i >= Len(text) THEN <<>>
  ELSE IF Lower(text[i]) = Lower(brand) /\ RunLen(text, i + 1, 0) > 0
       THEN LET k == RunLen(text, i + 1, 0)
                phrase == clean_phrase_tokens(SubSeq(text, i + 1, i + k))
            IN  (IF phrase # <<>> THEN <<phrase>> ELSE <<>>)
                \o PrefixPhrases(text, brand, i + k + 1)
       ELSE PrefixPhrases(text, brand, i + 1)

\* the longest run starting at s that is followed by (by|from) brand; 0 if none
SuffixRun(text, brand, s) ==
  LET ok == {k \in 1..RunLen(text, s, 0) :
               /\ s + k + 1 <= Len(text)
               /\ Lower(text[s + k]) \in {"by", "from"}
               /\ Lower(text[s + k + 1]) = Lower(brand)}
  IN  IF ok = {} THEN 0 ELSE CHOOSE k \in ok : \A m \in ok : m <= k

\* finditer of the brand-suffix shape from position s: the cleaned phrases
RECURSIVE SuffixPhrases(_, _, _)
SuffixPhrases(text, brand, s) ==
  IF s > Len(text) THEN <<>>
  ELSE LET k == SuffixRun(text, brand, s)
       IN  IF k > 0
           THEN LET phrase == clean_phrase_tokens(SubSeq(text, s, s + k - 1))
                IN  (IF phrase # <<>> THEN <<phrase>> ELSE <<>>)
                    \o SuffixPhrases(text, brand, s + k + 2)
           ELSE SuffixPhrases(text, brand, s + 1)

\* w in pl, for a lowercase word w and a lowercase phrase pl
WordIn(w, pl) == \E i \in 1..Len(pl) : pl[i] = w

\* the filter loop shared by both detect functions: out is the list of cleaned
\* phrases in match order; seen and res are the loop's accumulators
RECURSIVE FilterLoop(_, _, _, _, _)
FilterLoop(out, brand, cfg, seen, res) ==
  IF out = <<>> THEN res
  ELSE LET p0 == Head(out)
           pl0 == LowerSeq(p0)
       IN  IF (\E ob \in cfg.other_brands : WordIn(ob, pl0))
              \/ (\E w \in cfg.ignore_words : WordIn(w, pl0))
           THEN FilterLoop(Tail(out), brand, cfg, seen, res)
           ELSE LET p == IF cfg.require_brand_in_name /\ ~WordIn(Lower(brand), pl0)
                         THEN <<brand>> \o p0 ELSE p0
                    pl == LowerSeq(p)
                IN  IF Len(p) < 2
                    THEN FilterLoop(Tail(out), brand, cfg, seen, res)
                    ELSE LET res2 == IF pl \notin seen THEN Append(res, p) ELSE res
                         IN  IF Len(res2) >= cfg.max_names THEN res2
                             ELSE FilterLoop(Tail(out), brand, cfg, seen \cup {pl}, res2)

detect_products_from_text(text, brand, cfg) ==
  FilterLoop(PrefixPhrases(text, brand, 1) \o SuffixPhrases(text, brand, 1),
             brand, cfg, {}, <<>>)

\* per candidate node: prefix matches, then suffix matches
RECURSIVE NodePhrases(_, _)
NodePhrases(cands, brand) ==
  IF cands = <<>> THEN <<>>
  ELSE PrefixPhrases(Head(cands), brand, 1) \o SuffixPhrases(Head(cands), brand, 1)
       \o NodePhrases(Tail(cands), brand)

HeadingTags == {"h1", "h2", "h3", "h4", "strong", "b", "li", "a"}

\* the text of every heading/emphasis/list/link node, if non-empty
HtmlCandidates(page) ==
  LET hs == SelectSeq(page.nodes, LAMBDA n : n.tag \in HeadingTags /\ n.txt # <<>>)
  IN  [i \in 1..Len(hs) |-> hs[i].txt]

detect_products_from_html(page, brand, cfg) ==
  FilterLoop(NodePhrases(HtmlCandidates(page), brand), brand, cfg, {}, <<>>)

\* one iteration of the filter loop for the cleaned phrase p0: the accumulators
\* after it, and whether the phrase (brand prepended if required) went into res
FilterOne(p0, brand, cfg, seen, res) ==
  LET pl0 == LowerSeq(p0)
      p == IF cfg.require_brand_in_name /\ ~WordIn(Lower(brand), pl0)
           THEN <<brand>> \o p0 ELSE p0
      pl == LowerSeq(p)
  IN  IF (\E ob \in cfg.other_brands : WordIn(ob, pl0))
         \/ (\E w \in cfg.ignore_words : WordIn(w, pl0))
      THEN [seen |-> seen, res |-> res, kept |-> FALSE]
      ELSE IF Len(p) < 2 THEN [seen |-> seen, res |-> res, kept |-> FALSE]
      ELSE IF pl \notin seen
           THEN [seen |-> seen \cup {pl}, res |-> Append(res, p), kept |-> TRUE]
           ELSE [seen |-> seen, res |-> res, kept |-> FALSE]

\* ------------------------------------------------------------------------
\* Canonicalizer: product_canonical_display / product_canonical_key
\* ------------------------------------------------------------------------

\* VARIANT_TOKENS, in list order. Each regular expression is given by the token
\* runs it matches (lowercase, flags = re.I); tight[i] tells whether tokens i and
\* i+1 are joined by [\s\-]? (at most one separator) rather than by \s+.
VARIANT_TOKENS == <<
  {[toks |-> <<"wifi">>, tight |-> <<>>], [toks |-> <<"wi-fi">>, tight |-> <<>>],
   [toks |-> <<"wi", "fi">>, tight |-> <<TRUE>>]},
  {[toks |-> <<"wifi">>, tight |-> <<>>]},
  {[toks |-> <<"with", "wifi">>, tight |-> <<FALSE>>],
   [toks |-> <<"with", "wi-fi">>, tight |-> <<FALSE>>],
   [toks |-> <<"with", "wi", "fi">>, tight |-> <<FALSE, TRUE>>]},
  {[toks |-> <<"wifi", "enabled">>, tight |-> <<FALSE>>],
   [toks |-> <<"wi-fi", "enabled">>, tight |-> <<FALSE>>],
   [toks |-> <<"wi", "fi", "enabled">>, tight |-> <<TRUE, FALSE>>]},
  {[toks |-> <<"appcontrolled">>, tight |-> <<>>],
   [toks |-> <<"app-controlled">>, tight |-> <<>>],
   [toks |-> <<"app", "controlled">>, tight |-> <<TRUE>>]},
  {[toks |-> <<"with", "app">>, tight |-> <<FALSE>>]},
  {[toks |-> <<"bluetooth">>, tight |-> <<>>]},
  {[toks |-> <<"wireless">>, tight |-> <<>>]} >>

\* In the passes below a removed match leaves the empty token "" behind: the
\* text keeps the spaces on both sides of it, so its neighbours are two spaces
\* apart until whitespace is collapsed.

\* position of the last token of alt matched from position i with alt's token j
\* at i; 0 if alt does not match there
RECURSIVE AltEnd(_, _, _, _)
AltEnd(s, i, alt, j) ==
  IF i > Len(s) \/ Lower(s[i]) # alt.toks[j] THEN 0
  ELSE IF j = Len(alt.toks) THEN i
  ELSE IF alt.tight[j] THEN AltEnd(s, i + 1, alt, j + 1)
  ELSE LET nxt == {n \in (i + 1)..Len(s) : s[n] # ""}
       IN  IF nxt = {} THEN 0
           ELSE AltEnd(s, CHOOSE n \in nxt : \A m \in nxt : n <= m, alt, j + 1)

\* end of the match of one variant expression at position i; 0 if none
VariantEnd(s, i, vt) ==
  LET ends == {AltEnd(s, i, alt, 1) : alt \in vt} \ {0}
  IN  IF ends = {} THEN 0 ELSE CHOOSE e \in ends : \A f \in ends : f <= e

\* re.sub(rf"\b{vt}\b", "", s, flags=re.I): one left-to-right pass
RECURSIVE SubVariant(_, _, _)
SubVariant(s, i, vt) ==
  IF i > Len(s) THEN <<>>
  ELSE LET e == VariantEnd(s, i, vt)
       IN  IF e > 0 THEN <<"">> \o SubVariant(s, e + 1, vt)
           ELSE <<s[i]>> \o SubVariant(s, i + 1, vt)

\* the for loop over VARIANT_TOKENS
RECURSIVE SubAllVariants(_, _)
SubAllVariants(s, n) ==
  IF n > Len(VARIANT_TOKENS) THEN s
  ELSE SubAllVariants(SubVariant(s, 1, VARIANT_TOKENS[n]), n + 1)

\* re.sub(r"\s{2,}", " ", s) and the strips: the tokens that remain
CollapseWs(s) == StripEdges(SelectSeq(s, LAMBDA tok : tok # ""))

\* s.lower().startswith(brand.lower() + " " + brand.lower())
StartsDoubleBrand(s, brand) ==
  Len(s) >= 2 /\ Lower(s[1]) = Lower(brand) /\ Lower(s[2]) = Lower(brand)

product_canonical_display(brand, name) ==
  LET s == CollapseWs(SubAllVariants(name, 1))
  IN  IF StartsDoubleBrand(s, brand) THEN Tail(s) ELSE s

\* "".join of the tokens (a Python str without separators)
RECURSIVE Concat(_)
Concat(s) == IF s = <<>> THEN "" ELSE Head(s) \o Concat(Tail(s))

\* lowercase, brand word removed as a whole word, non-alphanumerics removed
product_canonical_key(brand, name) ==
  LET s == LowerSeq(product_canonical_display(brand, name))
      nb == SelectSeq(s, LAMBDA tok : tok # Lower(brand))
  IN  Concat([i \in 1..Len(nb) |-> AlnumOnly(nb[i])])

\* first catalog name of the brand whose pattern is found in the phrase, else
\* the canonical display form (collapse_variants) or the phrase itself
RECURSIVE FirstCanon(_, _, _)
FirstCanon(entries, phrase, cs) ==
  IF entries = <<>> THEN <<>>
  ELSE IF PatSearch(Head(entries).pat, phrase, cs) THEN Head(entries).cname
  ELSE FirstCanon(Tail(entries), phrase, cs)

canonicalize_phrase(brand, phrase, products, cfg) ==
  LET canon == CatalogPatterns(products, brand)
      hit == FirstCanon(canon, phrase, cfg.case_sensitive)
  IN  IF hit # <<>> THEN hit
      ELSE IF cfg.collapse_variants THEN product_canonical_display(brand, phrase)
      ELSE phrase

\* ------------------------------------------------------------------------
\* Page model and the text/structured-data extractors
\* ------------------------------------------------------------------------

\* A fetched page is a record
\*   [nodes |-> sequence of [tag, txt], jd |-> sequence of [brand, name], title]
\* where nodes are the page's text-bearing elements in document order and jd the
\* Product nodes of its JSON-LD blocks. Absent is what fetch returns on failure.
Absent == [nodes |-> <<>>, jd |-> <<>>, title |-> "", absent |-> TRUE]

MkPage(nodes, jd, title) ==
  [nodes |-> nodes, jd |-> jd, title |-> title, absent |-> FALSE]

\* get_text_content: the text of all nodes, joined by single spaces
get_text_content(page) == Flatten([i \in 1..Len(page.nodes) |-> page.nodes[i].txt])

\* jsonld_products: (brand or "Unknown", name) for every Product node with a name
RECURSIVE jsonld_products(_)
jsonld_products(jd) ==
  IF jd = <<>> THEN <<>>
  ELSE LET n == Head(jd)
       IN  (IF n.name # <<>>
            THEN <<[bname |-> IF n.brand # "" THEN n.brand ELSE "Unknown",
                    pname |-> n.name]>>
            ELSE <<>>)
           \o jsonld_products(Tail(jd))

\* ------------------------------------------------------------------------
\* scan_url
\* ------------------------------------------------------------------------
Row(brand, product, url, title) ==
  [brand |-> brand, product |-> product, url |-> url, title |-> title]

\* hit_products of the brand-only branch
HitProducts(pp, page, text, jd_pairs, products, cfg) ==
  LET canon == CatalogPatterns(products, pp.brand)
      fromCatalog == {canon[i].cname : i \in {j \in 1..Len(canon) :
                         PatSearch(canon[j].pat, text, cfg.case_sensitive)}}
      fromJd == {canonicalize_phrase(pp.brand, jd_pairs[i].pname, products, cfg) :
                   i \in {j \in 1..Len(jd_pairs) :
                            Lower(jd_pairs[j].bname) = Lower(pp.brand)}}
      fromHtml == {canonicalize_phrase(pp.brand, ph, products, cfg) :
                     ph \in SeqToSet(detect_products_from_html(page, pp.brand, cfg))}
      fromText == {canonicalize_phrase(pp.brand, ph, products, cfg) :
                     ph \in SeqToSet(detect_products_from_text(text, pp.brand, cfg))}
  IN  fromCatalog \cup fromJd \cup fromHtml \cup fromText

\* rows of a brand-only entry on one page
BrandOnlyRows(pp, url, page, text, jd_pairs, products, cfg) ==
  IF PatSearch(<<pp.brand>>, text, cfg.case_sensitive)
  THEN LET names == SortedSeq(HitProducts(pp, page, text, jd_pairs, products, cfg))
       IN  [i \in 1..Len(names) |-> Row(pp.brand, names[i], url, page.title)]
  ELSE <<>>

\* out_brand of the named branch: the brand of the first structured record whose
\* name matches one of the entry's patterns, when attribution is consulted
RECURSIVE JdBrand(_, _, _, _)
JdBrand(jd_pairs, pats, cs, dflt) ==
  IF jd_pairs = <<>> THEN dflt
  ELSE IF \E i \in 1..Len(pats) : PatSearch(pats[i], Head(jd_pairs).pname, cs)
       THEN Head(jd_pairs).bname
       ELSE JdBrand(Tail(jd_pairs), pats, cs, dflt)

\* rows of a named entry on one page
NamedRows(pp, url, page, text, jd_pairs, products, cfg) ==
  LET pats == ProductPats(pp)
      prod_ok == \E i \in 1..Len(pats) : PatSearch(pats[i], text, cfg.case_sensitive)
      out_brand == IF (pp.brand = "Unknown" \/ ~cfg.require_brand_match)
                      /\ jd_pairs # <<>>
                   THEN JdBrand(jd_pairs, pats, cfg.case_sensitive, pp.brand)
                   ELSE pp.brand
  IN  IF ~prod_ok THEN <<>>
      ELSE IF cfg.require_brand_match
              /\ ~PatSearch(<<pp.brand>>, text, cfg.case_sensitive) THEN <<>>
      ELSE <<Row(out_brand, canonicalize_phrase(out_brand, pp.name, products, cfg),
                 url, page.title)>>

\* the for loop over compiled_products
RECURSIVE EntryRows(_, _, _, _, _, _, _)
EntryRows(pps, url, page, text, jd_pairs, products, cfg) ==
  IF pps = <<>> THEN <<>>
  ELSE (IF Head(pps).brand_only
        THEN BrandOnlyRows(Head(pps), url, page, text, jd_pairs, products, cfg)
        ELSE NamedRows(Head(pps), url, page, text, jd_pairs, products, cfg))
       \o EntryRows(Tail(pps), url, page, text, jd_pairs, products, cfg)

\* scan_url(url), given what fetch(url) returned
scan_url(url, page, products, cfg) ==
  IF page.absent THEN <<>>
  ELSE LET text == get_text_content(page)
           jd_pairs == IF cfg.auto_detect THEN jsonld_products(page.jd) ELSE <<>>
       IN  EntryRows(products, url, page, text, jd_pairs, products, cfg)

\* ------------------------------------------------------------------------
\* Aggregation and the collapse-variants pass
\* ------------------------------------------------------------------------
\* key = (brand, product, url)
RowKey(row) == <<row.brand, row.product, row.url>>

\* mutant of FoldRows: rows appended without consulting seen
RECURSIVE FoldRows_NoSeenCheck(_, _)
FoldRows_NoSeenCheck(acc, out) ==
  IF out = <<>> THEN acc
  ELSE FoldRows_NoSeenCheck([results |-> Append(acc.results, Head(out)),
                             seen |-> acc.seen \cup {RowKey(Head(out))}],
                            Tail(out))

\* the inner loop "for row in out": acc is [results, seen]
RECURSIVE FoldRows(_, _)
FoldRows(acc, out) ==
  IF out = <<>> THEN acc
  ELSE LET row == Head(out)
           key == RowKey(row)
       IN  FoldRows(IF key \notin acc.seen
                    THEN [results |-> Append(acc.results, row),
                          seen |-> acc.seen \cup {key}]
                    ELSE acc,
                    Tail(out))

\* mutant of CollapseKey: the url left out of the key
CollapseKey_NoUrl(r) == <<Lower(r.brand), product_canonical_key(r.brand, r.product)>>

\* key of the collapse-variants pass
CollapseKey(r) == <<Lower(r.brand), product_canonical_key(r.brand, r.product), r.url>>

\* one iteration of the collapse-variants loop: acc is [compact, seen_keys]
CollapseOne(acc, r) ==
  LET key == CollapseKey(r)
  IN  IF key \in acc.seen_keys THEN acc
      ELSE [compact |-> Append(acc.compact,
               [r EXCEPT !.product = product_canonical_display(r.brand, r.product)]),
            seen_keys |-> acc.seen_keys \cup {key}]

RECURSIVE CollapseLoop(_, _)
CollapseLoop(acc, rows) ==
  IF rows = <<>> THEN acc.compact
  ELSE CollapseLoop(CollapseOne(acc, Head(rows)), Tail(rows))

\* "if collapse_variants and results: ... results = compact"
CollapsePass(rows, cfg) ==
  IF cfg.collapse_variants /\ rows # <<>>
  THEN CollapseLoop([compact |-> <<>>, seen_keys |-> {}], rows)
  ELSE rows

\* ------------------------------------------------------------------------
\* Per-page dedup: _dedupe_within_url
\* ------------------------------------------------------------------------

\* the characters of a lowercase token
CharsTab ==
  ("acme" :> <<"a", "c", "m", "e">>) @@ ("rover" :> <<"r", "o", "v", "e", "r">>) @@
  ("rovers" :> <<"r", "o", "v", "e", "r", "s">>) @@ ("x2" :> <<"x", "2">>) @@
  ("rover-x2" :> <<"r", "o", "v", "e", "r", "-", "x", "2">>) @@ ("" :> <<>>)

\* " ".join(toks) as a sequence of characters
RECURSIVE JoinChars(_)
JoinChars(toks) ==
  IF toks = <<>> THEN <<>>
  ELSE IF Len(toks) = 1 THEN CharsTab[toks[1]]
  ELSE CharsTab[toks[1]] \o <<" ">> \o JoinChars(Tail(toks))

\* str.strip() on a sequence of characters
RECURSIVE StripSpaces(_)
StripSpaces(cs) ==
  IF cs = <<>> THEN <<>>
  ELSE IF Head(cs) = " " THEN StripSpaces(Tail(cs))
  ELSE IF cs[Len(cs)] = " " THEN StripSpaces(SubSeq(cs, 1, Len(cs) - 1))
  ELSE cs

\* len(name) of a product name, its tokens joined by single spaces
RECURSIVE StrLen(_)
StrLen(name) ==
  IF name = <<>> THEN 0
  ELSE IF Len(name) = 1 THEN Len(name[1])
  ELSE Len(name[1]) + 1 + StrLen(Tail(name))

\* re.sub(rf"\b{brand_l}\b", "", name.lower()): the brand word leaves its
\* place empty, the spaces around it stay
BrandRemoved(brand_l, name) ==
  [i \in 1..Len(name) |-> IF Lower(name[i]) = brand_l THEN "" ELSE Lower(name[i])]

\* an entry of keep_names: brand word removed, then strip()
BrandStripped(brand_l, name) == StripSpaces(JoinChars(BrandRemoved(brand_l, name)))

\* "a in b" for two strings given as character sequences
IsSubstr(a, b) ==
  \E i \in 0..(Len(b) - Len(a)) : SubSeq(b, i + 1, i + Len(a)) = a

\* key of the first pass: brand word removed, non-alphanumerics and whitespace
\* removed
BucketKey(brand_l, name) ==
  LET nb == BrandRemoved(brand_l, name)
  IN  Concat([i \in 1..Len(nb) |-> AlnumOnly(nb[i])])

\* grouped[(brand.lower(), url)].append(r), the groups in insertion order
RECURSIVE GroupRows(_, _)
GroupRows(acc, rs) ==
  IF rs = <<>> THEN acc
  ELSE LET r == Head(rs)
           key == <<Lower(r.brand), r.url>>
           at == {i \in 1..Len(acc) : acc[i].key = key}
       IN  IF at = {}
           THEN GroupRows(Append(acc, [key |-> key, items |-> <<r>>]), Tail(rs))
           ELSE LET i == CHOOSE x \in at : TRUE
                IN  GroupRows([acc EXCEPT ![i].items = Append(@, r)], Tail(rs))

\* first pass: per normalized key the first item with the longest raw name;
\* buckets is the dict as a list of [key, it] in insertion order
RECURSIVE Buckets(_, _, _)
Buckets(acc, brand_l, items) ==
  IF items = <<>> THEN acc
  ELSE LET it == Head(items)
           key == BucketKey(brand_l, it.product)
           at == {i \in 1..Len(acc) : acc[i].key = key}
       IN  IF at = {}
           THEN Buckets(Append(acc, [key |-> key, it |-> it]), brand_l, Tail(items))
           ELSE LET i == CHOOSE x \in at : TRUE
                IN  IF StrLen(it.product) > StrLen(acc[i].it.product)
                    THEN Buckets([acc EXCEPT ![i].it = it], brand_l, Tail(items))
                    ELSE Buckets(acc, brand_l, Tail(items))

\* mutant of LongerExists: an item is compared with itself too and an equally
\* long name counts as longer
LongerExists_SelfCounts(brand_l, keep, i) ==
  \E j \in 1..Len(keep) :
     /\ IsSubstr(BrandStripped(brand_l, keep[i].product),
                 BrandStripped(brand_l, keep[j].product))
     /\ StrLen(keep[j].product) >= StrLen(keep[i].product)

\* longer_exists for keep[i]
LongerExists(brand_l, keep, i) ==
  \E j \in 1..Len(keep) :
     /\ i # j
     /\ IsSubstr(BrandStripped(brand_l, keep[i].product),
                 BrandStripped(brand_l, keep[j].product))
     /\ StrLen(keep[j].product) > StrLen(keep[i].product)

\* mutant of SecondPass: every bucket survivor is kept
SecondPass_KeepAll(brand_l, keep) == keep

\* second pass: final, the survivors without a longer name that contains them
SecondPass(brand_l, keep) ==
  LET idx == {i \in 1..Len(keep) : ~LongerExists(brand_l, keep, i)}
      F[n \in 0..Len(keep)] ==
        IF n = 0 THEN <<>>
        ELSE IF n \in idx THEN Append(F[n - 1], keep[n]) ELSE F[n - 1]
  IN  F[Len(keep)]

\* the body of "for (brand_l, url), items in grouped.items()": final
DedupeGroup(brand_l, items) ==
  LET buckets == Buckets(<<>>, brand_l, items)
      keep == [i \in 1..Len(buckets) |-> buckets[i].it]
  IN  SecondPass(brand_l, keep)

\* _dedupe_within_url(rows)
dedupe_within_url(rs) ==
  LET g == GroupRows(<<>>, rs)
  IN  Flatten([i \in 1..Len(g) |-> DedupeGroup(g[i].key[1], g[i].items)])

\* "if results and dedupe_per_url: results = _dedupe_within_url(results)"
DedupePass(rs, cfg) ==
  IF rs # <<>> /\ cfg.dedupe_per_url THEN dedupe_within_url(rs) ELSE rs

\* ------------------------------------------------------------------------
\* State
\* ------------------------------------------------------------------------
VARIABLES
  products,     \* the catalog: sequence of [brand, name, aliases, brand_only]
  cfg,          \* the scan options read from the form
  all_urls,     \* the URL list handed to ex.map
  web,          \* what fetch returns for each URL: a page or Absent
  max_workers,  \* size of the thread pool
  wstate,       \* per submitted URL: "queued", "running", "done"
  wout,         \* per submitted URL: the row list its scan_url call returned
  results,      \* the ResultSet (a list of rows)
  seen,         \* the keys already in results
  processed,    \* the progress counter
  outOfOrder,   \* history: some call finished before one submitted earlier
  pc,           \* position of the run handler
  page,         \* single-page scan: what fetch returned for the URL
  rows,         \* single-page scan: the row list scan_url returned
  rowsBy,       \* history: the rows each catalog entry contributed to rows
  c_in,         \* collapse pass: the results list it iterates over
  c_idx,        \* collapse pass: number of rows of c_in already visited
  c_acc,        \* collapse pass: [compact, seen_keys]
  d_web,        \* discovery: what fetch returns for each URL of the world
  excludes,     \* discovery: [common, custom], the exclusion options
  crawl_limit,  \* discovery: max pages per site
  sitemaps,     \* discovery: the list find_sitemaps returned
  sm_next,      \* discovery: number of sitemaps already processed
  sm_urls,      \* discovery: URLs collected from the sitemaps
  visited,      \* discovery: the crawl's visited set
  q,            \* discovery: the crawl's FIFO queue
  site_urls,    \* discovery: the URL list of the site
  crawled,      \* history: the crawl branch was taken
  fetched,      \* history: the URLs the crawl has fetched
  refetched,    \* history: the crawl fetched some URL a second time
  dd_in,        \* per-page dedup: the rows handed to _dedupe_within_url
  grouped,      \* per-page dedup: the groups, in insertion order: [key, items]
  g_idx,        \* per-page dedup: number of groups already processed
  dd_out,       \* per-page dedup: the list out
  k_brand,      \* canonical display: the brand argument
  k_name,       \* canonical display: the name argument
  k_once,       \* canonical display: product_canonical_display(brand, name)
  k_twice,      \* canonical display: the function applied to its own result
  det_src,      \* candidate extraction: "text" or "html", the detector called
  det_brand,    \* candidate extraction: the brand argument
  det_page,     \* candidate extraction: the page the detector reads
  det_out,      \* candidate extraction: the list out of cleaned phrases
  det_idx,      \* candidate extraction: number of phrases of out already visited
  det_seen,     \* candidate extraction: the filter loop's set seen
  det_res,      \* candidate extraction: the filter loop's list res
  det_kept      \* history: the positions of out whose phrase was appended to res

scanVars == <<products, cfg, all_urls, web, max_workers, wstate, wout, results,
              seen, processed, outOfOrder, pc>>

pageVars == <<page, rows, rowsBy>>

collapseVars == <<c_in, c_idx, c_acc>>

discVars == <<d_web, excludes, crawl_limit, sitemaps, sm_next, sm_urls, visited, q,
              site_urls, crawled, fetched, refetched>>

dedupVars == <<dd_in, grouped, g_idx, dd_out>>

canonVars == <<k_brand, k_name, k_once, k_twice>>

detectVars == <<det_src, det_brand, det_page, det_out, det_idx, det_seen, det_res,
                det_kept>>

vars == <<scanVars, pageVars, collapseVars, discVars, dedupVars, canonVars,
          detectVars>>

\* the discovery variables while no site is being indexed
DiscIdle ==
  /\ d_web = <<>>
  /\ excludes = [common |-> TRUE, custom |-> {}]
  /\ crawl_limit = 0
  /\ sitemaps = <<>>
  /\ sm_next = 0
  /\ sm_urls = {}
  /\ visited = {}
  /\ q = <<>>
  /\ site_urls = <<>>
  /\ crawled = FALSE
  /\ fetched = {}
  /\ refetched = FALSE

\* the per-page dedup variables while _dedupe_within_url is not running
DedupIdle ==
  /\ dd_in = <<>>
  /\ grouped = <<>>
  /\ g_idx = 0
  /\ dd_out = <<>>

\* the variables of the canonical display check while it is not running
CanonIdle ==
  /\ k_brand = ""
  /\ k_name = <<>>
  /\ k_once = <<>>
  /\ k_twice = <<>>

\* the candidate extraction variables while no detector is running
DetectIdle ==
  /\ det_src = ""
  /\ det_brand = ""
  /\ det_page = Absent
  /\ det_out = <<>>
  /\ det_idx = 0
  /\ det_seen = {}
  /\ det_res = <<>>
  /\ det_kept = {}

\* ------------------------------------------------------------------------
\* Inputs of the scan specification
\* ------------------------------------------------------------------------
Entry(brand, name, aliases) ==
  [brand |-> brand, name |-> name, aliases |-> aliases, brand_only |-> name = <<>>]

DefaultCfg ==
  [case_sensitive |-> FALSE, auto_detect |-> TRUE, collapse_variants |-> TRUE,
   require_brand_in_name |-> TRUE, require_brand_match |-> FALSE,
   max_names |-> 12, ignore_words |-> {"guide", "review", "best", "top"},
   other_brands |-> {"catlink"}, dedupe_per_url |-> FALSE]

Urls == {"u1", "u2"}

ScanCatalogs ==
  { <<Entry("Acme", <<"Rover">>, <<>>), Entry("Acme", <<"Rover", "X2">>, << <<"LR4">> >>)>>,
    <<Entry("Acme", <<>>, <<>>), Entry("Acme", <<"Rover", "X2">>, <<>>)>> }

ScanPages ==
  { MkPage(<<[tag |-> "h1", txt |-> <<"Acme", "Rover", "X2">>]>>, <<>>, "t1"),
    MkPage(<<[tag |-> "p", txt |-> <<"LR4">>]>>, <<>>, "t2"),
    MkPage(<<[tag |-> "p", txt |-> <<"Pro">>]>>, <<>>, "t3") }

SeqsUpTo(S, n) == UNION {[1..k -> S] : k \in 0..n}

\* ------------------------------------------------------------------------
\* The scan: ThreadPoolExecutor.map(scan_url, all_urls) and the aggregation loop
\* ------------------------------------------------------------------------
Init ==
  /\ products \in ScanCatalogs
  /\ cfg = DefaultCfg
  /\ all_urls \in SeqsUpTo(Urls, MaxUrls)
  /\ web \in [Urls -> ScanPages \cup {Absent}]
  /\ max_workers \in 1..MaxWorkers
  /\ wstate = [i \in 1..Len(all_urls) |-> "queued"]
  /\ wout = [i \in 1..Len(all_urls) |-> <<>>]
  /\ results = <<>>
  /\ seen = {}
  /\ processed = 0
  /\ outOfOrder = FALSE
  /\ pc = "scanning"
  /\ page = Absent
  /\ rows = <<>>
  /\ rowsBy = <<>>
  /\ c_in = <<>>
  /\ c_idx = 0
  /\ c_acc = [compact |-> <<>>, seen_keys |-> {}]
  /\ DiscIdle
  /\ DedupIdle
  /\ CanonIdle
  /\ DetectIdle

Running == {i \in 1..Len(all_urls) : wstate[i] = "running"}

Finished == {i \in 1..Len(all_urls) : wstate[i] = "done"}

\* a pool thread takes the oldest queued call
Start(i) ==
  /\ pc = "scanning"
  /\ wstate[i] = "queued"
  /\ \A j \in 1..(i - 1) : wstate[j] # "queued"
  /\ Cardinality(Running) < max_workers
  /\ wstate' = [wstate EXCEPT ![i] = "running"]
  /\ UNCHANGED <<dedupVars, canonVars, detectVars, pageVars, collapseVars, discVars, products, cfg, all_urls, web, max_workers, wout, results, seen,
                 processed, outOfOrder, pc>>

\* mutant of Finish: a failed fetch raises out of scan_url, so the call never
\* delivers a row list
Finish_Raises(i) ==
  /\ pc = "scanning"
  /\ wstate[i] = "running"
  /\ wstate' = [wstate EXCEPT ![i] = IF web[all_urls[i]].absent THEN "raised" ELSE "done"]
  /\ wout' = [wout EXCEPT ![i] = scan_url(all_urls[i], web[all_urls[i]], products, cfg)]
  /\ outOfOrder' = (outOfOrder \/ \E j \in 1..(i - 1) : wstate[j] # "done")
  /\ UNCHANGED <<dedupVars, canonVars, detectVars, pageVars, collapseVars, discVars, products, cfg, all_urls, web, max_workers, results, seen,
                 processed, pc>>

\* a running scan_url call returns; calls return in any order
Finish(i) ==
  /\ pc = "scanning"
  /\ wstate[i] = "running"
  /\ wstate' = [wstate EXCEPT ![i] = "done"]
  /\ wout' = [wout EXCEPT ![i] = scan_url(all_urls[i], web[all_urls[i]], products, cfg)]
  /\ outOfOrder' = (outOfOrder \/ \E j \in 1..(i - 1) : wstate[j] # "done")
  /\ UNCHANGED <<dedupVars, canonVars, detectVars, pageVars, collapseVars, discVars, products, cfg, all_urls, web, max_workers, results, seen,
                 processed, pc>>

\* mutant of NextReady: the result slot is read as soon as the call has started
NextReady_NoWait(i) == wstate[i] # "queued"

\* the iterator of ex.map yields the result of call i: it waits for that call
NextReady(i) == wstate[i] = "done"

\* one iteration of "for out in ex.map(...)": fold the rows, count, report
Consume ==
  /\ pc = "scanning"
  /\ processed < Len(all_urls)
  /\ NextReady(processed + 1)
  /\ LET acc == FoldRows([results |-> results, seen |-> seen], wout[processed + 1])
     IN  /\ results' = acc.results
         /\ seen' = acc.seen
  /\ processed' = processed + 1
  /\ UNCHANGED <<dedupVars, canonVars, detectVars, pageVars, collapseVars, discVars, products, cfg, all_urls, web, max_workers, wstate, wout,
                 outOfOrder, pc>>

\* the loop over ex.map is exhausted
EndScan ==
  /\ pc = "scanning"
  /\ processed = Len(all_urls)
  /\ pc' = "aggregated"
  /\ UNCHANGED <<dedupVars, canonVars, detectVars, pageVars, collapseVars, discVars, products, cfg, all_urls, web, max_workers, wstate, wout, results,
                 seen, processed, outOfOrder>>

Next ==
  \/ \E i \in 1..Len(all_urls) : Start(i)
  \/ \E i \in 1..Len(all_urls) : Finish(i)
  \/ Consume
  \/ EndScan

Spec == Init /\ [][Next]_vars

\* ------------------------------------------------------------------------
\* One page through the pipeline: scan_url, aggregation, collapse-variants pass
\* (specification SpecPage). The page, the catalog and the options are drawn
\* from bounded sets.
\* ------------------------------------------------------------------------
PageVocab == {"Acme", "Rover", "X2", "WiFi", "by", "LR4"}

PageTexts == SeqsUpTo(PageVocab, MaxTextLen)

\* the first k tokens in a heading, the rest in a paragraph
SplitPage(text, k, jd) ==
  MkPage(SelectSeq(<<[tag |-> "h1", txt |-> Slice(text, 1, k)],
                     [tag |-> "p", txt |-> Slice(text, k + 1, Len(text))]>>,
                   LAMBDA n : n.txt # <<>>),
         jd, "t1")

JdChoices ==
  { <<>>,
    <<[brand |-> "Acme", name |-> <<"Rover", "WiFi">>]>>,
    <<[brand |-> "", name |-> <<"Rover", "X2">>]>>,
    <<[brand |-> "Acme", name |-> <<"WiFi">>], [brand |-> "Zeta", name |-> <<"LR4">>]>> }

GenPages ==
  {SplitPage(t[1], t[2], t[3]) :
     t \in {x \in PageTexts \X (0..MaxTextLen) \X JdChoices : x[2] <= Len(x[1])}}

PageCatalogs ==
  { <<Entry("Acme", <<>>, <<>>)>>,
    <<Entry("Acme", <<"Rover", "X2">>, << <<"LR4">> >>), Entry("Acme", <<>>, <<>>)>>,
    <<Entry("Acme", <<"Rover">>, <<>>), Entry("Acme", <<"Rover", "WiFi">>, <<>>)>>,
    <<Entry("Unknown", <<"Rover", "X2">>, <<>>)>> }

PageCfgs ==
  {[DefaultCfg EXCEPT !.collapse_variants = c, !.require_brand_in_name = b,
                      !.max_names = m] :
     c \in BOOLEAN, b \in BOOLEAN, m \in {1, 12}}

PageUrl == "u1"

InitPage ==
  /\ products \in PageCatalogs
  /\ cfg \in PageCfgs
  /\ page \in GenPages
  /\ rows = <<>>
  /\ rowsBy = <<>>
  /\ results = <<>>
  /\ seen = {}
  /\ processed = 0
  /\ pc = "fetched"
  /\ all_urls = <<PageUrl>>
  /\ web = [u \in Urls |-> Absent]
  /\ max_workers = 1
  /\ wstate = <<"running">>
  /\ wout = <<>>
  /\ outOfOrder = FALSE
  /\ c_in = <<>>
  /\ c_idx = 0
  /\ c_acc = [compact |-> <<>>, seen_keys |-> {}]
  /\ DiscIdle
  /\ DedupIdle
  /\ CanonIdle
  /\ DetectIdle

\* the worker runs scan_url on the fetched page
PScan ==
  /\ pc = "fetched"
  /\ rows' = scan_url(PageUrl, page, products, cfg)
  /\ rowsBy' = [e \in 1..Len(products) |->
                  EntryRows(<<products[e]>>, PageUrl, page, get_text_content(page),
                            IF cfg.auto_detect THEN jsonld_products(page.jd) ELSE <<>>,
                            products, cfg)]
  /\ pc' = "scanned"
  /\ UNCHANGED <<dedupVars, canonVars, detectVars, products, cfg, all_urls, web, max_workers, wstate, wout, results,
                 seen, processed, outOfOrder, page, collapseVars, discVars>>

\* the aggregation loop folds the row list
PFold ==
  /\ pc = "scanned"
  /\ LET acc == FoldRows([results |-> results, seen |-> seen], rows)
     IN  /\ results' = acc.results
         /\ seen' = acc.seen
  /\ processed' = processed + 1
  /\ pc' = "aggregated"
  /\ UNCHANGED <<dedupVars, canonVars, detectVars, products, cfg, all_urls, web, max_workers, wstate, wout,
                 outOfOrder, pageVars, collapseVars, discVars>>

\* the collapse-variants pass over the aggregated results
PCollapse ==
  /\ pc = "aggregated"
  /\ results' = CollapsePass(results, cfg)
  /\ pc' = "collapsed"
  /\ UNCHANGED <<dedupVars, canonVars, detectVars, products, cfg, all_urls, web, max_workers, wstate, wout, seen,
                 processed, outOfOrder, pageVars, collapseVars, discVars>>

NextPage == PScan \/ PFold \/ PCollapse

SpecPage == InitPage /\ [][NextPage]_vars

\* ------------------------------------------------------------------------
\* The collapse-variants pass, one loop iteration at a time (specification
\* SpecCollapse). Its input is a results list as the aggregation loop leaves it:
\* rows with pairwise different (brand, product, url) keys.
\* ------------------------------------------------------------------------
CollapseBrands == {"Acme", "acme"}

CollapseProducts == {<<"Rover">>, <<"Rover", "WiFi">>, <<"Acme", "Rover">>, <<"WiFi">>}

RowUniverse ==
  {Row(b, p, u, IF u = "u1" THEN "t1" ELSE "t2") :
     b \in CollapseBrands, p \in CollapseProducts, u \in Urls}

AggregatedLists ==
  {rs \in SeqsUpTo(RowUniverse, MaxRows) :
     \A i, j \in 1..Len(rs) : i # j => RowKey(rs[i]) # RowKey(rs[j])}

InitCollapse ==
  /\ products = <<>>
  /\ cfg \in {[DefaultCfg EXCEPT !.collapse_variants = c] : c \in BOOLEAN}
  /\ results \in AggregatedLists
  /\ seen = {RowKey(results[i]) : i \in 1..Len(results)}
  /\ c_in = results
  /\ c_idx = 0
  /\ c_acc = [compact |-> <<>>, seen_keys |-> {}]
  /\ DiscIdle
  /\ DedupIdle
  /\ CanonIdle
  /\ DetectIdle
  /\ pc = "aggregated"
  /\ all_urls = <<>>
  /\ web = [u \in Urls |-> Absent]
  /\ max_workers = 1
  /\ wstate = <<>>
  /\ wout = <<>>
  /\ processed = 0
  /\ outOfOrder = FALSE
  /\ page = Absent
  /\ rows = <<>>
  /\ rowsBy = <<>>

\* "if collapse_variants and results" is false: results stays as it is
CSkip ==
  /\ pc = "aggregated"
  /\ ~(cfg.collapse_variants /\ results # <<>>)
  /\ pc' = "collapsed"
  /\ UNCHANGED <<dedupVars, canonVars, detectVars, products, cfg, all_urls, web, max_workers, wstate, wout, results,
                 seen, processed, outOfOrder, pageVars, collapseVars, discVars>>

\* one iteration of "for r in results"
CStep ==
  /\ pc = "aggregated"
  /\ cfg.collapse_variants /\ results # <<>>
  /\ c_idx < Len(c_in)
  /\ c_acc' = CollapseOne(c_acc, c_in[c_idx + 1])
  /\ c_idx' = c_idx + 1
  /\ UNCHANGED <<dedupVars, canonVars, detectVars, products, cfg, all_urls, web, max_workers, wstate, wout, results,
                 seen, processed, outOfOrder, pageVars, c_in, pc, discVars>>

\* "results = compact"
CAssign ==
  /\ pc = "aggregated"
  /\ cfg.collapse_variants /\ results # <<>>
  /\ c_idx = Len(c_in)
  /\ results' = c_acc.compact
  /\ pc' = "collapsed"
  /\ UNCHANGED <<dedupVars, canonVars, detectVars, products, cfg, all_urls, web, max_workers, wstate, wout,
                 seen, processed, outOfOrder, pageVars, collapseVars, discVars>>

NextCollapse == CSkip \/ CStep \/ CAssign

SpecCollapse == InitCollapse /\ [][NextCollapse]_vars

\* ------------------------------------------------------------------------
\* Site discovery followed by the scan (specification SpecDiscover): one site,
\* base "b" (its URLs are written "b/..."), in a small world of URLs.
\* ------------------------------------------------------------------------
Root == "b/"

\* the candidates of find_sitemaps, in list order
Candidates == <<"b/sitemap.xml", "b/sitemap_index.xml", "b/sitemap1.xml",
                "b/sitemap-index.xml", "b/sitemap_index.xml.gz", "b/sitemap.xml.gz",
                "b/robots.txt">>

SitePages == {Root, "b/p1", "b/tag/p2"}

WorldUrls == SeqToSet(Candidates) \cup SitePages \cup {"b/nested.xml", "b/p1#f", "x/p"}

\* what a URL returns: nothing, a sitemap, a robots.txt, or a page with anchors
NoContent == [kind |-> "none", locs |-> <<>>, lines |-> <<>>, links |-> {}]

Xml(locs) == [kind |-> "xml", locs |-> locs, lines |-> <<>>, links |-> {}]

Robots(lines) == [kind |-> "robots", locs |-> <<>>, lines |-> lines, links |-> {}]

Html(links) == [kind |-> "html", locs |-> <<>>, lines |-> <<>>, links |-> links]

\* fetch(url): None on a non-200 status or a transport error
fetch(u) == d_web[u]

\* "if not txt"
NoText(c) == c.kind = "none"

\* is_same_site(url, base)
is_same_site(u) == u \notin {"x/p", "#top", "mailto:a"}

\* u.split("#")[0]
StripFragment(u) == IF u = "b/p1#f" THEN "b/p1" ELSE u

\* u.endswith(".xml") or u.endswith(".xml.gz")
IsSitemapName(u) ==
  u \in {"b/sitemap.xml", "b/sitemap_index.xml", "b/sitemap1.xml", "b/sitemap-index.xml",
         "b/sitemap_index.xml.gz", "b/sitemap.xml.gz", "b/nested.xml"}

\* the least value the form accepts for "Max pages per site"
MinCrawlLimit == 50

\* a site large enough for the crawl to run into its page budget: the pages
\* "b/n10", "b/n11", ... next to the root, one more than the least budget
ChainLen == MinCrawlLimit + 1

ChainUrl(k) == "b/n" \o ToString(9 + k)

ChainUrls == {ChainUrl(k) : k \in 1..ChainLen}

\* the URLs in code-point order, as sorted() compares them
UrlOrder ==
  <<"b/">> \o [k \in 1..ChainLen |-> ChainUrl(k)] \o
  <<"b/nested.xml", "b/p1", "b/p1#f", "b/robots.txt", "b/sitemap-index.xml",
    "b/sitemap.xml", "b/sitemap.xml.gz", "b/sitemap1.xml", "b/sitemap_index.xml",
    "b/sitemap_index.xml.gz", "b/tag/p2", "x/p">>

\* sorted(S) for a set of URLs
SortedUrls(S) == SelectSeq(UrlOrder, LAMBDA u : u \in S)

\* list(dict.fromkeys(xs)): first occurrences, in order
RECURSIVE Dedupe(_, _)
Dedupe(xs, have) ==
  IF xs = <<>> THEN <<>>
  ELSE IF Head(xs) \in have THEN Dedupe(Tail(xs), have)
  ELSE <<Head(xs)>> \o Dedupe(Tail(xs), have \cup {Head(xs)})

\* the URLs on the robots.txt lines that contain "sitemap"
RECURSIVE RobotsSitemaps(_)
RobotsSitemaps(lines) ==
  IF lines = <<>> THEN <<>>
  ELSE (IF Head(lines).word THEN Head(lines).urls ELSE <<>>)
       \o RobotsSitemaps(Tail(lines))

\* the loop of find_sitemaps over the candidates
RECURSIVE FoundIn(_)
FoundIn(cands) ==
  IF cands = <<>> THEN <<>>
  ELSE LET c == Head(cands)
           txt == fetch(c)
       IN  (IF NoText(txt) THEN <<>>
            ELSE IF c = "b/robots.txt" THEN RobotsSitemaps(txt.lines)
            ELSE <<c>>)
           \o FoundIn(Tail(cands))

find_sitemaps == Dedupe(FoundIn(Candidates), {})

\* parse_sitemap: the <loc> entries; none when the text holds none
parse_sitemap(txt) == txt.locs

\* the same-site URLs of a nested sitemap, fragments stripped
NestedUrls(u) ==
  IF NoText(fetch(u)) THEN {}
  ELSE {StripFragment(u2) : u2 \in {v \in SeqToSet(parse_sitemap(fetch(u))) : is_same_site(v)}}

\* what one sitemap adds to sm_urls
SitemapUrls(sm) ==
  IF NoText(fetch(sm)) THEN {}
  ELSE UNION {IF IsSitemapName(u) THEN NestedUrls(u)
              ELSE IF is_same_site(u) THEN {StripFragment(u)} ELSE {} :
                u \in SeqToSet(parse_sitemap(fetch(sm)))}

\* extract_visitable_links: a set, so list(links) comes in an arbitrary order
extract_visitable_links(html) ==
  {StripFragment(h) : h \in {a \in html.links : a \notin {"#top", "mailto:a"} /\ is_same_site(a)}}

\* the orders in which a set can be listed
Orders(S) == {o \in [1..Cardinality(S) -> S] : \A i, j \in DOMAIN o : i # j => o[i] # o[j]}

\* p in u, for an exclusion pattern p
UrlContains(u, p) ==
  CASE p = "/tag/" -> u = "b/tag/p2"
    [] p = "b/" -> u \in WorldUrls \ {"x/p"}
    [] OTHER -> FALSE

ExcludePatterns ==
  (IF excludes.common
   THEN {"/tag/", "/category/", "/page/", "/feed/", "/reviews/", "/author/"} ELSE {})
  \cup excludes.custom

\* urls = [u for u in urls if not any(p in u for p in patterns)]
ApplyFilter(urls) ==
  SelectSeq(urls, LAMBDA u : ~\E p \in ExcludePatterns : UrlContains(u, p))

\* subsets of S with at most n elements
SubsetsUpTo(S, n) == {T \in SUBSET S : Cardinality(T) <= n}

LinkTargets == SitePages \cup {"x/p"}

PageContents == {NoContent} \cup {Html(L) : L \in SubsetsUpTo(LinkTargets, MaxLinks)}

AllAbsent == [u \in WorldUrls |-> NoContent]

\* worlds without any sitemap: every candidate fails or robots.txt names none
CrawlWorlds ==
  {[AllAbsent EXCEPT !["b/robots.txt"] = t[1], ![Root] = t[2], !["b/p1"] = t[3],
                     !["b/tag/p2"] = t[4]] :
     t \in {NoContent, Robots(<<[word |-> FALSE, urls |-> <<"b/nested.xml">>]>>)}
           \X PageContents \X PageContents \X PageContents}

SitemapContents ==
  {NoContent, Html({"b/p1"}), Xml(<<>>), Xml(<<"b/p1", "b/tag/p2", "b/p1#f">>),
   Xml(<<"x/p">>), Xml(<<"b/nested.xml", "b/p1">>)}

\* worlds in which sitemap files or robots.txt may answer
SitemapWorlds ==
  {[AllAbsent EXCEPT !["b/sitemap.xml"] = t[1], !["b/sitemap.xml.gz"] = t[2],
                     !["b/robots.txt"] = t[3], !["b/nested.xml"] = t[4],
                     ![Root] = Html({"b/p1"}), !["b/p1"] = Html({Root})] :
     t \in SitemapContents
           \X {NoContent, Html({})}
           \X {NoContent, Robots(<<>>),
               Robots(<<[word |-> TRUE, urls |-> <<"b/nested.xml">>]>>),
               Robots(<<[word |-> TRUE, urls |-> <<"b/sitemap.xml">>]>>)}
           \X {NoContent, Xml(<<"b/tag/p2", "x/p">>), Xml(<<>>)}}

\* the page a URL serves to the scan
PageOfContent(c) ==
  IF c.kind = "none" THEN Absent
  ELSE IF c.kind = "html"
       THEN MkPage(<<[tag |-> "h1", txt |-> <<"Acme", "Rover", "X2">>]>>, <<>>, "t1")
       ELSE MkPage(<<>>, <<>>, "")

DiscCatalog == <<Entry("Acme", <<>>, <<>>), Entry("Acme", <<"Rover", "X2">>, << <<"LR4">> >>)>>

ExcludeChoices ==
  {[common |-> TRUE, custom |-> {}], [common |-> FALSE, custom |-> {}],
   [common |-> TRUE, custom |-> {"b/"}]}

InitDiscover ==
  /\ d_web \in CrawlWorlds \cup SitemapWorlds
  /\ excludes \in ExcludeChoices
  /\ crawl_limit = MinCrawlLimit
  /\ sitemaps = <<>>
  /\ sm_next = 0
  /\ sm_urls = {}
  /\ visited = {}
  /\ q = <<>>
  /\ site_urls = <<>>
  /\ crawled = FALSE
  /\ fetched = {}
  /\ refetched = FALSE
  /\ DedupIdle
  /\ CanonIdle
  /\ DetectIdle
  /\ products = DiscCatalog
  /\ cfg = DefaultCfg
  /\ all_urls = <<>>
  /\ web = [u \in WorldUrls |-> PageOfContent(d_web[u])]
  /\ max_workers = MaxWorkers
  /\ wstate = <<>>
  /\ wout = <<>>
  /\ results = <<>>
  /\ seen = {}
  /\ processed = 0
  /\ outOfOrder = FALSE
  /\ pc = "indexing"
  /\ page = Absent
  /\ rows = <<>>
  /\ rowsBy = <<>>
  /\ c_in = <<>>
  /\ c_idx = 0
  /\ c_acc = [compact |-> <<>>, seen_keys |-> {}]

\* sitemaps = find_sitemaps(base), and the branch on "if sitemaps"
FindSitemaps ==
  /\ pc = "indexing"
  /\ sitemaps' = find_sitemaps
  /\ IF sitemaps' # <<>>
     THEN /\ pc' = "sitemaps"
          /\ UNCHANGED <<visited, q, crawled>>
     ELSE /\ pc' = "crawl"
          /\ visited' = {}
          /\ q' = <<Root>>
          /\ crawled' = TRUE
  /\ UNCHANGED <<dedupVars, canonVars, detectVars, products, cfg, all_urls, web, max_workers, wstate, wout, results,
                 seen, processed, outOfOrder, pageVars, collapseVars, fetched, refetched, d_web, excludes,
                 crawl_limit, sm_next, sm_urls, site_urls>>

\* one iteration of "for sm in sitemaps"
SitemapStep ==
  /\ pc = "sitemaps"
  /\ sm_next < Len(sitemaps)
  /\ sm_urls' = sm_urls \cup SitemapUrls(sitemaps[sm_next + 1])
  /\ sm_next' = sm_next + 1
  /\ UNCHANGED <<dedupVars, canonVars, detectVars, products, cfg, all_urls, web, max_workers, wstate, wout, results,
                 seen, processed, outOfOrder, pc, pageVars, collapseVars, fetched, refetched, d_web,
                 excludes, crawl_limit, sitemaps, visited, q, site_urls, crawled>>

\* urls = list(sorted(sm_urls))
SitemapsDone ==
  /\ pc = "sitemaps"
  /\ sm_next = Len(sitemaps)
  /\ site_urls' = SortedUrls(sm_urls)
  /\ pc' = "filter"
  /\ UNCHANGED <<dedupVars, canonVars, detectVars, products, cfg, all_urls, web, max_workers, wstate, wout, results,
                 seen, processed, outOfOrder, pageVars, collapseVars, fetched, refetched, d_web,
                 excludes, crawl_limit, sitemaps, sm_next, sm_urls, visited, q, crawled>>

\* the links one crawled page enqueues, in the order the list comes in
Enqueued(html, vis, ord) ==
  SelectSeq(ord, LAMBDA link : link \notin vis /\ is_same_site(link))

\* mutant of CrawlStep: a URL is added to visited only when its fetch succeeded
CrawlStep_VisitOnSuccess ==
  /\ pc = "crawl"
  /\ q # <<>> /\ Cardinality(visited) < crawl_limit
  /\ LET u == Head(q)
     IN  IF u \in visited
         THEN /\ q' = Tail(q)
              /\ UNCHANGED <<visited, fetched, refetched>>
         ELSE /\ fetched' = fetched \cup {u}
              /\ refetched' = (refetched \/ u \in fetched)
              /\ IF NoText(fetch(u))
                 THEN /\ q' = Tail(q)
                      /\ UNCHANGED visited
                 ELSE /\ visited' = visited \cup {u}
                      /\ \E ord \in Orders(extract_visitable_links(fetch(u))) :
                           q' = Tail(q) \o Enqueued(fetch(u), visited', ord)
  /\ UNCHANGED <<dedupVars, canonVars, detectVars, products, cfg, all_urls, web, max_workers, wstate, wout, results,
                 seen, processed, outOfOrder, pc, pageVars, collapseVars, d_web,
                 excludes, crawl_limit, sitemaps, sm_next, sm_urls, site_urls, crawled>>

\* mutant of CrawlStep: "if u in visited: continue" is left out
CrawlStep_NoVisitedCheck ==
  /\ pc = "crawl"
  /\ q # <<>> /\ Cardinality(visited) < crawl_limit
  /\ LET u == Head(q)
     IN  /\ visited' = visited \cup {u}
         /\ fetched' = fetched \cup {u}
         /\ refetched' = (refetched \/ u \in fetched)
         /\ IF NoText(fetch(u))
            THEN q' = Tail(q)
            ELSE \E ord \in Orders(extract_visitable_links(fetch(u))) :
                   q' = Tail(q) \o Enqueued(fetch(u), visited', ord)
  /\ UNCHANGED <<dedupVars, canonVars, detectVars, products, cfg, all_urls, web,
                 max_workers, wstate, wout, results, seen, processed, outOfOrder, pc,
                 pageVars, collapseVars, d_web, excludes, crawl_limit, sitemaps,
                 sm_next, sm_urls, site_urls, crawled>>

\* one iteration of "while not q.empty() and len(visited) < crawl_limit"
CrawlStep ==
  /\ pc = "crawl"
  /\ q # <<>> /\ Cardinality(visited) < crawl_limit
  /\ LET u == Head(q)
     IN  IF u \in visited
         THEN /\ q' = Tail(q)
              /\ UNCHANGED <<visited, fetched, refetched>>
         ELSE /\ visited' = visited \cup {u}
              /\ fetched' = fetched \cup {u}
              /\ refetched' = (refetched \/ u \in fetched)
              /\ IF NoText(fetch(u))
                 THEN q' = Tail(q)
                 ELSE \E ord \in Orders(extract_visitable_links(fetch(u))) :
                        q' = Tail(q) \o Enqueued(fetch(u), visited', ord)
  /\ UNCHANGED <<dedupVars, canonVars, detectVars, products, cfg, all_urls, web, max_workers, wstate, wout, results,
                 seen, processed, outOfOrder, pc, pageVars, collapseVars, d_web,
                 excludes, crawl_limit, sitemaps, sm_next, sm_urls, site_urls, crawled>>

\* the while loop ends; urls = list(sorted(visited))
CrawlDone ==
  /\ pc = "crawl"
  /\ ~(q # <<>> /\ Cardinality(visited) < crawl_limit)
  /\ site_urls' = SortedUrls(visited)
  /\ pc' = "filter"
  /\ UNCHANGED <<dedupVars, canonVars, detectVars, products, cfg, all_urls, web, max_workers, wstate, wout, results,
                 seen, processed, outOfOrder, pageVars, collapseVars, fetched, refetched, d_web,
                 excludes, crawl_limit, sitemaps, sm_next, sm_urls, visited, q, crawled>>

\* the exclusion filter, site_urls[base] = urls, and the start of the scan over
\* all_urls: every URL is submitted to the pool
ApplyExcludes ==
  /\ pc = "filter"
  /\ site_urls' = ApplyFilter(site_urls)
  /\ all_urls' = site_urls'
  /\ wstate' = [i \in 1..Len(site_urls') |-> "queued"]
  /\ wout' = [i \in 1..Len(site_urls') |-> <<>>]
  /\ pc' = "scanning"
  /\ UNCHANGED <<dedupVars, canonVars, detectVars, products, cfg, web, max_workers, results, seen, processed,
                 outOfOrder, pageVars, collapseVars, fetched, refetched, d_web, excludes, crawl_limit,
                 sitemaps, sm_next, sm_urls, visited, q, crawled>>

\* after the loop: the collapse pass, the per-URL dedupe, then the no-results
\* warning or the table
Report ==
  /\ pc = "aggregated"
  /\ results' = DedupePass(CollapsePass(results, cfg), cfg)
  /\ pc' = IF results' = <<>> THEN "warned" ELSE "displayed"
  /\ UNCHANGED <<dedupVars, canonVars, detectVars, products, cfg, all_urls, web, max_workers, wstate, wout, seen,
                 processed, outOfOrder, pageVars, collapseVars, discVars>>

NextDiscover ==
  \/ FindSitemaps
  \/ SitemapStep
  \/ SitemapsDone
  \/ CrawlStep
  \/ CrawlDone
  \/ ApplyExcludes
  \/ \E i \in 1..Len(all_urls) : Start(i)
  \/ \E i \in 1..Len(all_urls) : Finish(i)
  \/ Consume
  \/ EndScan
  \/ Report

SpecDiscover == InitDiscover /\ [][NextDiscover]_vars

\* ------------------------------------------------------------------------
\* The fallback crawl on a site with more pages than the page budget
\* (specification SpecCrawl): no sitemap candidate answers; the root is page 0
\* and the pages ChainUrls are pages 1..ChainLen.
\* ------------------------------------------------------------------------
CrawlPageUrl(k) == IF k = 0 THEN Root ELSE ChainUrl(k)

CrawlPageIndex(u) == IF u = Root THEN 0 ELSE CHOOSE k \in 1..ChainLen : ChainUrl(k) = u

\* what the pages link to: 0 is a link to the root, d > 0 a link to the page d
\* places further on
LinkShapes == SubsetsUpTo({0, 1, 2}, MaxLinks)

ShapeLinks(k, D) ==
  {CrawlPageUrl(IF d = 0 THEN 0 ELSE k + d) : d \in {x \in D : x = 0 \/ k + x <= ChainLen}}

\* the pages whose fetch fails
FailSets == SubsetsUpTo({0, 1, 2, 25}, 2)

\* the site whose even pages link by shape De, odd pages by shape Do, and whose
\* pages in F fail
LargeSite(De, Do, F) ==
  [u \in SeqToSet(Candidates) \cup {Root} \cup ChainUrls |->
     IF u \in SeqToSet(Candidates) THEN NoContent
     ELSE LET k == CrawlPageIndex(u)
          IN  IF k \in F THEN NoContent
              ELSE Html(ShapeLinks(k, IF k % 2 = 0 THEN De ELSE Do))]

LargeSiteWorlds ==
  {LargeSite(t[1], t[2], t[3]) : t \in LinkShapes \X LinkShapes \X FailSets}

InitCrawl ==
  /\ d_web \in LargeSiteWorlds
  /\ excludes = [common |-> TRUE, custom |-> {}]
  /\ crawl_limit = MinCrawlLimit
  /\ sitemaps = <<>>
  /\ sm_next = 0
  /\ sm_urls = {}
  /\ visited = {}
  /\ q = <<>>
  /\ site_urls = <<>>
  /\ crawled = FALSE
  /\ fetched = {}
  /\ refetched = FALSE
  /\ DedupIdle
  /\ CanonIdle
  /\ DetectIdle
  /\ products = DiscCatalog
  /\ cfg = DefaultCfg
  /\ all_urls = <<>>
  /\ web = [u \in Urls |-> Absent]
  /\ max_workers = 1
  /\ wstate = <<>>
  /\ wout = <<>>
  /\ results = <<>>
  /\ seen = {}
  /\ processed = 0
  /\ outOfOrder = FALSE
  /\ pc = "indexing"
  /\ page = Absent
  /\ rows = <<>>
  /\ rowsBy = <<>>
  /\ c_in = <<>>
  /\ c_idx = 0
  /\ c_acc = [compact |-> <<>>, seen_keys |-> {}]

NextCrawl == FindSitemaps \/ CrawlStep \/ CrawlDone

SpecCrawl == InitCrawl /\ [][NextCrawl]_vars

\* ------------------------------------------------------------------------
\* The per-URL dedupe after the collapse pass, one group at a time
\* (specification SpecDedupe). Its input is a results list with pairwise
\* different (brand, product, url) keys.
\* ------------------------------------------------------------------------
DedupeNames ==
  {<<"Rover">>, <<"Rover", "X2">>, <<"Rover-X2">>, <<"Acme", "Rover", "X2">>,
   <<"Rovers">>, <<"Rover", "Acme", "X2">>}

DedupeSites == {<<"Acme", "u1">>, <<"acme", "u1">>, <<"Acme", "u2">>}

DedupeUniverse ==
  {Row(bu[1], p, bu[2], IF bu[2] = "u1" THEN "t1" ELSE "t2") :
     bu \in DedupeSites, p \in DedupeNames}

DedupeInputs ==
  {rs \in SeqsUpTo(DedupeUniverse, MaxRows) :
     \A i, j \in 1..Len(rs) : i # j => RowKey(rs[i]) # RowKey(rs[j])}

InitDedupe ==
  /\ products = <<>>
  /\ cfg \in {[DefaultCfg EXCEPT !.dedupe_per_url = d] : d \in BOOLEAN}
  /\ results \in DedupeInputs
  /\ seen = {RowKey(results[i]) : i \in 1..Len(results)}
  /\ dd_in = results
  /\ grouped = <<>>
  /\ g_idx = 0
  /\ dd_out = <<>>
  /\ pc = "collapsed"
  /\ DiscIdle
  /\ CanonIdle
  /\ DetectIdle
  /\ all_urls = <<>>
  /\ web = [u \in Urls |-> Absent]
  /\ max_workers = 1
  /\ wstate = <<>>
  /\ wout = <<>>
  /\ processed = 0
  /\ outOfOrder = FALSE
  /\ page = Absent
  /\ rows = <<>>
  /\ rowsBy = <<>>
  /\ c_in = <<>>
  /\ c_idx = 0
  /\ c_acc = [compact |-> <<>>, seen_keys |-> {}]

\* "if results and dedupe_per_url" is false: results stays as it is
DSkip ==
  /\ pc = "collapsed"
  /\ ~(results # <<>> /\ cfg.dedupe_per_url)
  /\ pc' = "deduped"
  /\ UNCHANGED <<products, cfg, all_urls, web, max_workers, wstate, wout, results,
                 seen, processed, outOfOrder, pageVars, collapseVars, discVars,
                 dedupVars, canonVars, detectVars>>

\* the call of _dedupe_within_url: the loop that fills grouped
DGroup ==
  /\ pc = "collapsed"
  /\ results # <<>> /\ cfg.dedupe_per_url
  /\ grouped' = GroupRows(<<>>, results)
  /\ pc' = "dedupe"
  /\ UNCHANGED <<products, cfg, all_urls, web, max_workers, wstate, wout, results,
                 seen, processed, outOfOrder, pageVars, collapseVars, discVars,
                 dd_in, g_idx, dd_out, canonVars, detectVars>>

\* one iteration of "for (brand_l, url), items in grouped.items()"
DGroupStep ==
  /\ pc = "dedupe"
  /\ g_idx < Len(grouped)
  /\ dd_out' = dd_out \o DedupeGroup(grouped[g_idx + 1].key[1], grouped[g_idx + 1].items)
  /\ g_idx' = g_idx + 1
  /\ UNCHANGED <<products, cfg, all_urls, web, max_workers, wstate, wout, results,
                 seen, processed, outOfOrder, pc, pageVars, collapseVars, discVars,
                 dd_in, grouped, canonVars, detectVars>>

\* "return out" and "results = _dedupe_within_url(results)"
DReturn ==
  /\ pc = "dedupe"
  /\ g_idx = Len(grouped)
  /\ results' = dd_out
  /\ pc' = "deduped"
  /\ UNCHANGED <<products, cfg, all_urls, web, max_workers, wstate, wout,
                 seen, processed, outOfOrder, pageVars, collapseVars, discVars,
                 dedupVars, canonVars, detectVars>>

NextDedupe == DSkip \/ DGroup \/ DGroupStep \/ DReturn

SpecDedupe == InitDedupe /\ [][NextDedupe]_vars

\* ------------------------------------------------------------------------
\* product_canonical_display applied to a name and then to its own result
\* (specification SpecCanon), as the collapse pass does when a displayed name
\* is collapsed again in a later run.
\* ------------------------------------------------------------------------
CanonVocab == {"Acme", "Rover", "Wi", "Fi", "WiFi", "with", "app", "Bluetooth"}

CanonNames == SeqsUpTo(CanonVocab, MaxTextLen)

InitCanon ==
  /\ k_brand = "Acme"
  /\ k_name \in CanonNames
  /\ k_once = <<>>
  /\ k_twice = <<>>
  /\ pc = "canon"
  /\ products = <<>>
  /\ cfg = DefaultCfg
  /\ results = <<>>
  /\ seen = {}
  /\ DiscIdle
  /\ DedupIdle
  /\ DetectIdle
  /\ all_urls = <<>>
  /\ web = [u \in Urls |-> Absent]
  /\ max_workers = 1
  /\ wstate = <<>>
  /\ wout = <<>>
  /\ processed = 0
  /\ outOfOrder = FALSE
  /\ page = Absent
  /\ rows = <<>>
  /\ rowsBy = <<>>
  /\ c_in = <<>>
  /\ c_idx = 0
  /\ c_acc = [compact |-> <<>>, seen_keys |-> {}]

\* product_canonical_display(brand, name)
CanonOnce ==
  /\ pc = "canon"
  /\ k_once' = product_canonical_display(k_brand, k_name)
  /\ pc' = "canon_once"
  /\ UNCHANGED <<products, cfg, all_urls, web, max_workers, wstate, wout, results,
                 seen, processed, outOfOrder, pageVars, collapseVars, discVars,
                 dedupVars, k_brand, k_name, k_twice, detectVars>>

\* product_canonical_display(brand, s) for the s the first call returned
CanonTwice ==
  /\ pc = "canon_once"
  /\ k_twice' = product_canonical_display(k_brand, k_once)
  /\ pc' = "canon_twice"
  /\ UNCHANGED <<products, cfg, all_urls, web, max_workers, wstate, wout, results,
                 seen, processed, outOfOrder, pageVars, collapseVars, discVars,
                 dedupVars, k_brand, k_name, k_once, detectVars>>

NextCanon == CanonOnce \/ CanonTwice

SpecCanon == InitCanon /\ [][NextCanon]_vars

\* ------------------------------------------------------------------------
\* Candidate extraction on one page, the filter loop one phrase at a time
\* (specification SpecDetect).
\* ------------------------------------------------------------------------
DetectVocab == {"Acme", "Rover", "X2", "by", "guide", "CatLink"}

DetectTexts == SeqsUpTo(DetectVocab, MaxTextLen)

DetectPages ==
  {SplitPage(t[1], t[2], <<>>) :
     t \in {x \in DetectTexts \X (0..MaxTextLen) : x[2] <= Len(x[1])}}

DetectCfgs ==
  {[DefaultCfg EXCEPT !.require_brand_in_name = b, !.max_names = m] :
     b \in BOOLEAN, m \in {1, 12}}

InitDetect ==
  /\ det_src \in {"text", "html"}
  /\ det_brand = "Acme"
  /\ det_page \in DetectPages
  /\ cfg \in DetectCfgs
  /\ det_out = <<>>
  /\ det_idx = 0
  /\ det_seen = {}
  /\ det_res = <<>>
  /\ det_kept = {}
  /\ pc = "detect"
  /\ products = <<>>
  /\ results = <<>>
  /\ seen = {}
  /\ DiscIdle
  /\ DedupIdle
  /\ CanonIdle
  /\ all_urls = <<>>
  /\ web = [u \in Urls |-> Absent]
  /\ max_workers = 1
  /\ wstate = <<>>
  /\ wout = <<>>
  /\ processed = 0
  /\ outOfOrder = FALSE
  /\ page = Absent
  /\ rows = <<>>
  /\ rowsBy = <<>>
  /\ c_in = <<>>
  /\ c_idx = 0
  /\ c_acc = [compact |-> <<>>, seen_keys |-> {}]

\* the finditer loops: out, the cleaned phrases that are non-empty
DetectMatch ==
  /\ pc = "detect"
  /\ det_out' = IF det_src = "text"
                THEN PrefixPhrases(get_text_content(det_page), det_brand, 1)
                     \o SuffixPhrases(get_text_content(det_page), det_brand, 1)
                ELSE NodePhrases(HtmlCandidates(det_page), det_brand)
  /\ pc' = "filtering"
  /\ UNCHANGED <<products, cfg, all_urls, web, max_workers, wstate, wout, results,
                 seen, processed, outOfOrder, pageVars, collapseVars, discVars,
                 dedupVars, canonVars, det_src, det_brand, det_page, det_idx,
                 det_seen, det_res, det_kept>>

\* one iteration of "for p in out"
DetectFilterStep ==
  /\ pc = "filtering"
  /\ det_idx < Len(det_out)
  /\ Len(det_res) < cfg.max_names
  /\ LET r == FilterOne(det_out[det_idx + 1], det_brand, cfg, det_seen, det_res)
     IN  /\ det_seen' = r.seen
         /\ det_res' = r.res
         /\ det_kept' = IF r.kept THEN det_kept \cup {det_idx + 1} ELSE det_kept
  /\ det_idx' = det_idx + 1
  /\ UNCHANGED <<products, cfg, all_urls, web, max_workers, wstate, wout, results,
                 seen, processed, outOfOrder, pc, pageVars, collapseVars, discVars,
                 dedupVars, canonVars, det_src, det_brand, det_page, det_out>>

\* the loop is exhausted or left by "if len(res) >= max_per_page: break"
DetectReturn ==
  /\ pc = "filtering"
  /\ det_idx = Len(det_out) \/ Len(det_res) >= cfg.max_names
  /\ pc' = "detected"
  /\ UNCHANGED <<products, cfg, all_urls, web, max_workers, wstate, wout, results,
                 seen, processed, outOfOrder, pageVars, collapseVars, discVars,
                 dedupVars, canonVars, detectVars>>

NextDetect == DetectMatch \/ DetectFilterStep \/ DetectReturn

SpecDetect == InitDetect /\ [][NextDetect]_vars

\* ------------------------------------------------------------------------
\* Properties of the scan (specification Spec)
\* ------------------------------------------------------------------------
Total == Len(all_urls)

KeyOf(r) == <<r.brand, r.product, r.url>>

\* the row lists consumed so far, concatenated in consumption order
Offered == Flatten([i \in 1..processed |-> wout[i]])

\* the positions of a row list that hold the first row of their key
FirstPositions(rs) ==
  {i \in 1..Len(rs) : \A j \in 1..(i - 1) : KeyOf(rs[j]) # KeyOf(rs[i])}

\* C1: the ResultSet never holds two rows with the same (brand, product, url)
\* key, and offering a row whose key is present changes nothing: results is
\* exactly the offered rows at their first occurrence, in order, and seen is
\* the set of their keys.
C1_UniqueKeys ==
  /\ \A i, j \in 1..Len(results) : i # j => KeyOf(results[i]) # KeyOf(results[j])
  /\ Len(results) = Cardinality(FirstPositions(Offered))
  /\ \A i \in FirstPositions(Offered) : \E k \in 1..Len(results) : results[k] = Offered[i]
  /\ seen = {KeyOf(results[k]) : k \in 1..Len(results)}

\* a duplicate key was offered (by two catalog entries, or by a repeated URL)
C1_Witness ==
  /\ pc = "aggregated"
  /\ Len(Offered) > Len(results)
  /\ \E i, j \in 1..Total : i # j /\ all_urls[i] = all_urls[j] /\ wout[i] # <<>>

\* the keys a scan of the URL list must end with, whatever the schedule
ExpectedKeys ==
  UNION {{KeyOf(r) : r \in SeqToSet(scan_url(u, web[u], products, cfg))} :
           u \in SeqToSet(all_urls)}

\* C2: at the end of accumulation the set of keys in the ResultSet is a function
\* of the URL list and the page contents alone: it is the same for every order
\* in which the scan_url calls finish.
C2_OrderIndependent ==
  pc = "aggregated" => {KeyOf(results[k]) : k \in 1..Len(results)} = ExpectedKeys

\* a finished scan in which a later call returned before an earlier one
C2_Witness ==
  /\ pc = "aggregated"
  /\ outOfOrder
  /\ Cardinality({KeyOf(results[k]) : k \in 1..Len(results)}) >= 2

\* the rows of the pages that can be fetched, computed on the page contents
RowsOfFetched ==
  UNION {SeqToSet(EntryRows(products, u, web[u], get_text_content(web[u]),
                            jsonld_products(web[u].jd), products, cfg)) :
           u \in {v \in SeqToSet(all_urls) : ~web[v].absent}}

\* C3: a URL whose fetch returns absent contributes no rows and does not stop
\* the fan-out: while URLs remain uncounted some step of the scan is possible,
\* every call hands back a row list, and at the end every URL is counted and the
\* ResultSet holds exactly the rows of the URLs whose fetch succeeded.
C3_FailuresAbsorbed ==
  /\ \A i \in 1..Total : wstate[i] \in {"queued", "running", "done"}
  /\ \A i \in Finished : web[all_urls[i]].absent => wout[i] = <<>>
  /\ (pc = "scanning" /\ processed < Total) =>
        \/ \E i \in 1..Total : wstate[i] = "queued" /\ Cardinality(Running) < max_workers
        \/ Running # {}
        \/ NextReady(processed + 1)
  /\ pc = "aggregated" =>
        /\ processed = Total
        /\ Finished = 1..Total
        /\ SeqToSet(results) = RowsOfFetched

\* a finished scan with a failing URL ahead of a URL that produced rows
C3_Witness ==
  /\ pc = "aggregated"
  /\ \E i, j \in 1..Total : i < j /\ web[all_urls[i]].absent /\ wout[j] # <<>>
  /\ results # <<>>

\* C8 as stated: a finished unit is counted without waiting for units submitted
\* earlier: whenever the aggregation loop has taken every result it can take,
\* the reported count equals the number of finished units.
C8_CountEqualsFinished ==
  (pc = "scanning" /\ ~(processed < Total /\ NextReady(processed + 1)))
     => processed = Cardinality(Finished)

\* length of the longest prefix of the URL list whose calls have all finished
FinishedPrefix ==
  Cardinality({i \in 1..Total : \A j \in 1..i : wstate[j] = "done"})

\* C8 amended: progress is reported after each result is taken from ex.map, in
\* submission order: the count never exceeds the length of the finished prefix
\* of the URL list (so never the number of finished units), a unit that
\* finished behind an unfinished earlier one is not counted yet, and the count
\* equals the total when the loop ends.
C8_CountIsConsumedPrefix ==
  /\ processed <= FinishedPrefix
  /\ FinishedPrefix <= Cardinality(Finished)
  /\ \A i \in Finished : (\E j \in 1..(i - 1) : wstate[j] # "done") => processed < i
  /\ pc = "aggregated" => processed = Total

\* a unit has finished while an earlier one is still in flight: it is not counted
C8_Witness ==
  /\ pc = "scanning"
  /\ \E i \in Finished : \E j \in 1..(i - 1) : wstate[j] = "running"
  /\ processed < Cardinality(Finished)

\* ------------------------------------------------------------------------
\* Properties of one page's pipeline (specification SpecPage)
\* ------------------------------------------------------------------------
Scanned == pc \in {"scanned", "aggregated", "collapsed"}

BrandOnlyEntries == {e \in 1..Len(products) : products[e].brand_only}

NamedEntries == {e \in 1..Len(products) : ~products[e].brand_only}

\* C6: a brand-only entry never emits a row whose product is empty, neither as
\* scan_url returns it nor after the collapse-variants pass has rewritten it.
C6_BrandOnlyProductNonEmpty ==
  Scanned =>
    \A e \in BrandOnlyEntries : \A k \in 1..Len(rowsBy[e]) :
       /\ rowsBy[e][k].product # <<>>
       /\ cfg.collapse_variants =>
            product_canonical_display(rowsBy[e][k].brand, rowsBy[e][k].product) # <<>>

\* the entry's name or one of its aliases is found in the page text
ProdOk(e) ==
  \E i \in 1..Len(ProductPats(products[e])) :
     PatSearch(ProductPats(products[e])[i], get_text_content(page), cfg.case_sensitive)

\* C7: when the page text matches the name or an alias of a named entry, the
\* entry's row carries exactly the catalog name as product, as scan_url emits
\* it and in the final result.
C7_ProductIsCatalogName ==
  Scanned =>
    \A e \in NamedEntries : (ProdOk(e) /\ rowsBy[e] # <<>>) =>
       /\ \A k \in 1..Len(rowsBy[e]) : rowsBy[e][k].product = products[e].name
       /\ pc = "collapsed" =>
            \E k \in 1..Len(results) :
               /\ results[k].brand = rowsBy[e][1].brand
               /\ results[k].product = products[e].name

\* C9: the rows a brand-only entry emits for one page (its merged, de-duplicated
\* candidate names) never exceed the configured maximum per page.
C9_MergedCandidatesCapped ==
  Scanned => \A e \in BrandOnlyEntries : Len(rowsBy[e]) <= cfg.max_names

\* C15: a row emitted for a named entry whose catalog brand is a concrete
\* label never carries the brand "Unknown": its brand is the entry's own or a
\* brand label present in a structured Product record whose name matches one of
\* the entry's patterns.
C15_NamedBrandNeverUnknown ==
  Scanned =>
    \A e \in NamedEntries : products[e].brand # "Unknown" =>
       \A k \in 1..Len(rowsBy[e]) :
          /\ rowsBy[e][k].brand # "Unknown"
          /\ \/ rowsBy[e][k].brand = products[e].brand
             \/ \E j \in 1..Len(page.jd) :
                   /\ page.jd[j].brand # ""
                   /\ page.jd[j].brand = rowsBy[e][k].brand
                   /\ \E i \in 1..Len(ProductPats(products[e])) :
                         PatSearch(ProductPats(products[e])[i], page.jd[j].name,
                                   cfg.case_sensitive)

\* ------------------------------------------------------------------------
\* Properties of the collapse-variants pass (specification SpecCollapse)
\* ------------------------------------------------------------------------

\* the (brand.lower, canonicalKey(brand, product), url) triple of an input row
Triple(r) == <<Lower(r.brand), product_canonical_key(r.brand, r.product), r.url>>

\* the triples of a row list, position by position
RECURSIVE TriplesOf(_)
TriplesOf(rs) == IF rs = <<>> THEN <<>> ELSE <<Triple(Head(rs))>> \o TriplesOf(Tail(rs))

\* a set of positions as an increasing sequence
RECURSIVE Ascending(_)
Ascending(S) ==
  IF S = {} THEN <<>>
  ELSE LET m == CHOOSE i \in S : \A j \in S : i <= j
       IN  <<m>> \o Ascending(S \ {m})

\* out holds, in input order, exactly the first row of every triple among the
\* first n input rows, its product rewritten to the canonical display form
KeepsFirstPerTriple(out, n) ==
  LET tr == TriplesOf(SubSeq(c_in, 1, n))
      first == Ascending({i \in 1..n : \A j \in 1..(i - 1) : tr[j] # tr[i]})
  IN  /\ Len(out) = Len(first)
      /\ Len(out) <= n
      /\ \A k \in 1..Len(first) :
           LET r == c_in[first[k]]
           IN  out[k] = [r EXCEPT !.product = product_canonical_display(r.brand, r.product)]
      /\ \A i \in 1..n : \E k \in 1..Len(first) : first[k] <= i /\ tr[first[k]] = tr[i]

\* C10: the collapse-variants pass keeps exactly one row, the first in input
\* order, for every distinct (brand.lower, canonicalKey, url) triple of its
\* input: after every iteration and in the list it assigns to results, the
\* output is no longer than the input read and every triple read has its first
\* row in the output.
C10_KeepsFirstPerTriple ==
  /\ KeepsFirstPerTriple(c_acc.compact, c_idx)
  /\ (pc = "collapsed" /\ cfg.collapse_variants /\ c_in # <<>>) =>
        KeepsFirstPerTriple(results, Len(c_in))
  /\ (pc = "collapsed" /\ ~cfg.collapse_variants) => results = c_in

\* a finished pass that dropped a later row of a triple and kept two triples
C10_Witness ==
  /\ pc = "collapsed"
  /\ cfg.collapse_variants
  /\ Len(results) < Len(c_in)
  /\ Len(results) >= 2
  /\ \E i, j \in 1..Len(c_in) : i < j /\ Triple(c_in[i]) = Triple(c_in[j])
                                  /\ c_in[i].product # c_in[j].product


\* ------------------------------------------------------------------------
\* Properties of discovery (specification SpecDiscover)
\* ------------------------------------------------------------------------

\* fetch fails for every sitemap candidate, robots.txt included, and for the seed
AllFetchesFail ==
  /\ \A i \in 1..Len(Candidates) : NoText(d_web[Candidates[i]])
  /\ NoText(d_web[Root])

\* discovery has returned the site's URL list
Indexed == pc \in {"scanning", "aggregated", "warned", "displayed"}

\* C4 as stated: when every sitemap candidate and the crawl seed fail, discovery
\* returns an empty URL set and the scan ends with zero rows.
C4_EmptyUrlSet ==
  AllFetchesFail =>
    /\ Indexed => site_urls = <<>>
    /\ pc = "aggregated" => results = <<>>
    /\ pc # "displayed"

\* the exclusion filter drops the seed
SeedExcluded == \E p \in ExcludePatterns : UrlContains(Root, p)

\* C4 amended: when every sitemap candidate and the crawl seed fail, the crawl
\* marks the seed visited before fetching it, so discovery returns the seed
\* alone (nothing if the exclusion filter drops it); the scan then fetches at
\* most that URL, ends with zero rows in the no-results branch, and no step of
\* the run is blocked before that.
C4_SeedOnlyZeroRows ==
  AllFetchesFail =>
    /\ sitemaps = <<>>
    /\ visited \subseteq {Root}
    /\ pc = "filter" => site_urls = <<Root>>
    /\ Indexed => site_urls = (IF SeedExcluded THEN <<>> ELSE <<Root>>)
    /\ results = <<>>
    /\ pc # "displayed"
    /\ pc # "warned" => ENABLED NextDiscover

\* the all-failing site went through the scan of its seed to the no-results end
C4_Witness ==
  /\ AllFetchesFail
  /\ pc = "warned"
  /\ crawled
  /\ site_urls = <<Root>>
  /\ processed = 1

\* C5: discovery falls back to the crawl whenever no sitemap yields a URL, also
\* when sitemap files were found but gave no same-origin URL; the crawl is
\* skipped only when the sitemaps produced at least one URL.
C5_CrawlWheneverSitemapsEmpty ==
  (pc = "filter" \/ Indexed) => (crawled <=> sm_urls = {})

\* ------------------------------------------------------------------------
\* Properties of the per-URL dedupe (specification SpecDedupe)
\* ------------------------------------------------------------------------

\* rows a and b are of one group, a's brand-stripped lowercase name is a
\* substring of b's, and b's raw product name is strictly longer
Subsumes(b, a) ==
  /\ Lower(a.brand) = Lower(b.brand)
  /\ a.url = b.url
  /\ IsSubstr(BrandStripped(Lower(a.brand), a.product),
              BrandStripped(Lower(b.brand), b.product))
  /\ StrLen(b.product) > StrLen(a.product)

\* _dedupe_within_url has run and its result is in results
Deduped == pc = "deduped" /\ cfg.dedupe_per_url /\ dd_in # <<>>

\* C11: after per-page dedup no two retained rows of one (brand.lower, url) are
\* such that one's brand-stripped name is a substring of the other's while the
\* other's raw product name is strictly longer; the same holds of the list out
\* while the groups are processed.
C11_NoSubsumedPairRetained ==
  /\ \A i, j \in 1..Len(dd_out) : ~Subsumes(dd_out[j], dd_out[i])
  /\ Deduped => \A i, j \in 1..Len(results) : ~Subsumes(results[j], results[i])

\* the input held a subsumed row, and two rows of one group were retained
C11_Witness ==
  /\ Deduped
  /\ \E i, j \in 1..Len(dd_in) : Subsumes(dd_in[j], dd_in[i])
  /\ \E i, j \in 1..Len(results) :
        /\ i # j
        /\ Lower(results[i].brand) = Lower(results[j].brand)
        /\ results[i].url = results[j].url

GroupKeyOf(r) == <<Lower(r.brand), r.url>>

\* C16: per-page dedup never empties a group and returns input rows unchanged:
\* every (brand.lower, url) that has a row in the input has one in the
\* output, and every output row is a row of the input.
C16_GroupsSurvive ==
  /\ \A k \in 1..Len(dd_out) : \E i \in 1..Len(dd_in) : dd_out[k] = dd_in[i]
  /\ \A g \in 1..g_idx : \E k \in 1..Len(dd_out) : GroupKeyOf(dd_out[k]) = grouped[g].key
  /\ Deduped =>
       /\ \A i \in 1..Len(dd_in) :
             \E k \in 1..Len(results) : GroupKeyOf(results[k]) = GroupKeyOf(dd_in[i])
       /\ \A k \in 1..Len(results) : \E i \in 1..Len(dd_in) : results[k] = dd_in[i]

\* dedup dropped rows of a group with several rows, and two groups survive
C16_Witness ==
  /\ Deduped
  /\ Len(results) < Len(dd_in)
  /\ Cardinality({GroupKeyOf(results[k]) : k \in 1..Len(results)}) = 2

\* ------------------------------------------------------------------------
\* Properties of product_canonical_display (specification SpecCanon)
\* ------------------------------------------------------------------------

\* C12: canonicalization is idempotent: applying product_canonical_display to
\* its own result gives that result again, for every brand and phrase.
C12_DisplayIdempotent ==
  pc = "canon_twice" => k_twice = k_once

\* ------------------------------------------------------------------------
\* Properties of candidate extraction (specification SpecDetect)
\* ------------------------------------------------------------------------

\* no ignore-word or other-brand filter applies to the cleaned phrase
Unfiltered(p0) ==
  /\ ~\E ob \in cfg.other_brands : WordIn(ob, LowerSeq(p0))
  /\ ~\E w \in cfg.ignore_words : WordIn(w, LowerSeq(p0))

\* the phrase, as it is or with the brand prepended, is in res
InRes(p0) ==
  \E k \in 1..Len(det_res) :
     LowerSeq(det_res[k]) \in {LowerSeq(p0), LowerSeq(<<det_brand>> \o p0)}

\* C13: of the phrases the filter loop has visited, one with exactly 1 token
\* after cleanup is never put into the result, and one with exactly 2 tokens
\* that no ignore-word or other-brand filter applies to is in the result, for
\* both settings of require_brand_in_name.
C13_OneTokenOutTwoTokensIn ==
  \A i \in 1..det_idx :
     /\ Len(det_out[i]) = 1 => i \notin det_kept
     /\ (Len(det_out[i]) = 2 /\ Unfiltered(det_out[i])) => InRes(det_out[i])

\* the step-wise loop returns what the detector returns as a whole
DetectAgrees ==
  pc = "detected" =>
    det_res = IF det_src = "text"
              THEN detect_products_from_text(get_text_content(det_page), det_brand, cfg)
              ELSE detect_products_from_html(det_page, det_brand, cfg)

\* ------------------------------------------------------------------------
\* Properties of the fallback crawl (specification SpecCrawl)
\* ------------------------------------------------------------------------

\* the condition of "while not q.empty() and len(visited) < crawl_limit"
CrawlGoesOn == q # <<>> /\ Cardinality(visited) < crawl_limit

\* C14: in the fallback crawl the visited set never holds more than crawl_limit
\* URLs, no URL is fetched more than once, and the loop goes on while the
\* frontier is non-empty and visited is below the budget and stops exactly when
\* visited has reached the budget or the frontier is empty.
C14_CrawlBudget ==
  /\ Cardinality(visited) <= crawl_limit
  /\ ~refetched
  /\ fetched = visited
  /\ pc = "crawl" =>
       /\ CrawlGoesOn => (ENABLED CrawlStep /\ ~ENABLED CrawlDone)
       /\ ~CrawlGoesOn => (ENABLED CrawlDone /\ ~ENABLED CrawlStep)
  /\ (pc = "filter" /\ crawled) =>
       /\ Cardinality(visited) = crawl_limit \/ q = <<>>
       /\ site_urls = SortedUrls(visited)

\* the crawl stopped on its budget with the frontier non-empty, and one of the
\* URLs it visited had failed
C14_Witness ==
  /\ pc = "filter"
  /\ crawled
  /\ Cardinality(visited) = crawl_limit
  /\ q # <<>>
  /\ \E u \in visited : NoText(d_web[u])

====
